---- MODULE Spec2Model ----
(***************************************************************************)
(* Event parsing and validation of the relay (src/event.rs): decoding of   *)
(* the tags field, the EventCmd -> Result<Event> conversion, is_valid,     *)
(* to_canonical and the tag query helpers.                                 *)
(*                                                                         *)
(* Strings are sequences of one-character strings, so that JSON escaping   *)
(* and number formatting are computed character by character.  The         *)
(* cryptographic primitives of the external crates are symbolic: sha256    *)
(* is a collision-free constructor over its pre-image, and a signature     *)
(* verifies exactly for the key and the message it was made for.           *)
(***************************************************************************)
EXTENDS Integers, Sequences, FiniteSets, TLC

VARIABLES
    settings,         \* config::SETTINGS.options.reject_future_seconds
    overflow_checks,  \* whether the build panics on integer overflow
    readers,          \* read guards held on the SETTINGS RwLock
    ec,               \* the EventCmd handed to the conversion
    res,              \* what the conversion returned, and what it did
    accepted,         \* the event accepted before a tampered copy was sent
    wire,             \* a JSON event object as received
    event,            \* the Event decoded from wire
    canon,            \* an earlier to_canonical result, with its event
    out,              \* the last method call on event, and its result
    thr               \* per-thread state of concurrent is_valid calls

vars == <<settings, overflow_checks, readers, ec, res, accepted,
          wire, event, canon, out, thr>>

seqVars == <<settings, overflow_checks, readers, ec, res, accepted>>
evVars == <<wire, event, canon, out>>

----------------------------------------------------------------------------
(* Bounds *)

\* width in bits of the model's u64
U64Bits == 4

Modulus == 2 ^ U64Bits
MaxU64 == Modulus - 1
U64 == 0 .. MaxU64

----------------------------------------------------------------------------
(* Option *)

None == <<>>
Some(x) == <<x>>
unwrap(o) == o[1]

----------------------------------------------------------------------------
(* serde_json: Value, Number, and compact serialization *)

Number(n) == [type |-> "Number", n |-> n, s |-> <<>>, a |-> <<>>]
String(s) == [type |-> "String", n |-> 0, s |-> s, a |-> <<>>]
Array(a) == [type |-> "Array", n |-> 0, s |-> <<>>, a |-> a]

Digits == <<"0", "1", "2", "3", "4", "5", "6", "7", "8", "9">>

RECURSIVE itoa(_)
itoa(n) ==
    IF n < 10 THEN <<Digits[n + 1]>>
    ELSE itoa(n \div 10) \o <<Digits[(n % 10) + 1]>>

EscapeCharRaw(ch) == <<ch>>

EscapeChar(ch) ==
    IF ch = "\"" THEN <<"\\", "\"">>
    ELSE IF ch = "\\" THEN <<"\\", "\\">>
    ELSE <<ch>>

RECURSIVE EscapeStr(_)
EscapeStr(s) ==
    IF s = <<>> THEN <<>>
    ELSE EscapeChar(Head(s)) \o EscapeStr(Tail(s))

RECURSIVE to_string(_)
RECURSIVE JoinValues(_)
JoinValues(a) ==
    IF a = <<>> THEN <<>>
    ELSE IF Len(a) = 1 THEN to_string(a[1])
    ELSE to_string(a[1]) \o <<",">> \o JoinValues(Tail(a))

to_string(v) ==
    IF v.type = "Number" THEN itoa(v.n)
    ELSE IF v.type = "String" THEN <<"\"">> \o EscapeStr(v.s) \o <<"\"">>
    ELSE <<"[">> \o JoinValues(v.a) \o <<"]">>

----------------------------------------------------------------------------
(* bitcoin_hashes and secp256k1, symbolically *)

Sha256(bytes) == [alg |-> "sha256", of |-> bytes]
NoDigest == [alg |-> "none", of |-> <<>>]

\* format!("{:x}", digest): the lowercase hex string of a digest
LowerHex(d) == [enc |-> "lowerhex", digest |-> d, text |-> <<>>]
\* the same hex digits in upper case: another string
UpperHex(d) == [enc |-> "upperhex", digest |-> d, text |-> <<>>]
\* a string that is no digest's hex form
Text(s) == [enc |-> "text", digest |-> NoDigest, text |-> s]

\* hex strings that decode to a valid x-only public key
KeyA == <<"0", "a">>
KeyB == <<"0", "b">>
XOnlyKeys == {KeyA, KeyB}
\* strings that do not: wrong length, and not a point of the curve
KeyShort == <<"0">>
KeyOffCurve == <<"f", "f">>

\* the hex string of the signature made with pk's secret key over digest d
SigBy(pk, d) == [form |-> "sig64", signer |-> pk, msg |-> d]
\* 64 well-formed bytes that are nobody's signature
SigForged == [form |-> "sig64", signer |-> <<>>, msg |-> NoDigest]
\* not 64 bytes of hex, such as "0"
SigMalformed == [form |-> "malformed", signer |-> <<>>, msg |-> NoDigest]

SignatureFromStr(s) == IF s.form = "sig64" THEN Some(s) ELSE None

PublicKeyFromStr(s) == IF s \in XOnlyKeys THEN Some(s) ELSE None

schnorrsig_verify(sig, message, pubkey) ==
    sig.signer = pubkey /\ sig.msg = message

----------------------------------------------------------------------------
(* Event *)

Signable(e) ==
    [pubkey |-> e.pubkey, created_at |-> e.created_at, kind |-> e.kind,
     tags |-> e.tags, content |-> e.content]

MkEvent(s, id, sig) ==
    [id |-> id, pubkey |-> s.pubkey, created_at |-> s.created_at,
     kind |-> s.kind, tags |-> s.tags, content |-> s.content, sig |-> sig]

tags_to_canonical_flat(self) ==
    Array([i \in 1 .. Len(self.tags) |->
              String(IF self.tags[i] = <<>> THEN <<>> ELSE self.tags[i][1])])

tags_to_canonical(self) ==
    Array([i \in 1 .. Len(self.tags) |->
              Array([j \in 1 .. Len(self.tags[i]) |-> String(self.tags[i][j])])])

canonical_value(self) ==
    <<Number(0), String(self.pubkey), Number(self.created_at),
      Number(self.kind), tags_to_canonical(self), String(self.content)>>

to_canonical(self) == Some(to_string(Array(canonical_value(self))))

unix_time(now) == IF now < 0 THEN 0 ELSE now

\* lines 81-92: "pass", "fail" (return false) or "panic" (overflow check)
TimestampCheck(created_at, max_future_sec, curr_time, checks) ==
    IF max_future_sec = None THEN "pass"
    ELSE LET allowable_future == unwrap(max_future_sec) % Modulus
             sum == curr_time + allowable_future
         IN  IF sum >= Modulus /\ checks THEN "panic"
             ELSE IF (sum % Modulus) < created_at THEN "fail"
             ELSE "pass"

Verdict(ret, at, clock) == [ret |-> ret, at |-> at, clock |-> clock]
NotRun == Verdict("none", "none", None)

\* the verification without the comparison of id and digest
VerifyEventNoIdCheck(self, clock) ==
    LET digest == Sha256(unwrap(to_canonical(self)))
        sig == SignatureFromStr(self.sig)
        pubkey == PublicKeyFromStr(self.pubkey)
    IN  IF sig = None THEN Verdict("panic", "sig", clock)
        ELSE IF pubkey = None THEN Verdict("panic", "pubkey", clock)
        ELSE IF schnorrsig_verify(unwrap(sig), digest, unwrap(pubkey))
             THEN Verdict("true", "verify", clock)
        ELSE Verdict("false", "verify", clock)

\* lines 98-117, after the timestamp check
VerifyEvent(self, clock) ==
    LET c_opt == to_canonical(self)
        digest == Sha256(unwrap(c_opt))
        hex_digest == LowerHex(digest)
        sig == SignatureFromStr(self.sig)
        pubkey == PublicKeyFromStr(self.pubkey)
    IN  IF c_opt = None THEN Verdict("false", "canonical", clock)
        ELSE IF self.id # hex_digest THEN Verdict("false", "id", clock)
        ELSE IF sig = None THEN Verdict("panic", "sig", clock)
        ELSE IF pubkey = None THEN Verdict("panic", "pubkey", clock)
        ELSE IF schnorrsig_verify(unwrap(sig), digest, unwrap(pubkey))
             THEN Verdict("true", "verify", clock)
        ELSE Verdict("false", "verify", clock)

is_valid(self, max_future_sec, now, checks) ==
    LET clock == IF max_future_sec = None THEN None ELSE Some(unix_time(now))
        ts == IF clock = None THEN "pass"
              ELSE TimestampCheck(self.created_at, max_future_sec,
                                  unwrap(clock), checks)
    IN  IF ts = "panic" THEN Verdict("panic", "timestamp", clock)
        ELSE IF ts = "fail" THEN Verdict("false", "timestamp", clock)
        ELSE VerifyEvent(self, clock)

NoEvent == <<>>

Call(op, arg, val) == [op |-> op, arg |-> arg, val |-> val]
NoCall == Call("none", <<>>, <<>>)

Result(outcome, err, ev, valid) ==
    [state |-> "done", outcome |-> outcome, err |-> err, event |-> ev,
     valid |-> valid]
Pending == [state |-> "pending", outcome |-> "none", err |-> "none",
            event |-> NoEvent, valid |-> NotRun]

\* the conversion validating before it looks at the command
FromValidateFirst(cmd, max_future_sec, now, checks) ==
    LET v == is_valid(cmd.event, max_future_sec, now, checks)
    IN  IF v.ret = "panic" THEN Result("panic", "none", NoEvent, v)
        ELSE IF v.ret = "false" THEN Result("Err", "EventInvalid", NoEvent, v)
        ELSE IF cmd.cmd # "EVENT"
             THEN Result("Err", "CommandUnknownError", NoEvent, v)
        ELSE Result("Ok", "none", cmd.event, v)

From(cmd, max_future_sec, now, checks) ==
    IF cmd.cmd # "EVENT"
    THEN Result("Err", "CommandUnknownError", NoEvent, NotRun)
    ELSE LET v == is_valid(cmd.event, max_future_sec, now, checks)
         IN  IF v.ret = "panic" THEN Result("panic", "none", NoEvent, v)
             ELSE IF v.ret = "true" THEN Result("Ok", "none", cmd.event, v)
             ELSE Result("Err", "EventInvalid", NoEvent, v)

----------------------------------------------------------------------------
(* Decoding, and the tag query helpers *)

tag_from_string_one_empty_tag(opt) ==
    IF opt = None THEN <<<<>>>> ELSE unwrap(opt)

\* Option::deserialize gives None for null; unwrap_or_else(Vec::new)
tag_from_string(opt) == IF opt = None THEN <<>> ELSE unwrap(opt)

\* #[derive(Deserialize)] for Event: every field as is, tags through
\* tag_from_string
Deserialize(w) ==
    [id |-> w.id, pubkey |-> w.pubkey, created_at |-> w.created_at,
     kind |-> w.kind, tags |-> tag_from_string(w.tags),
     content |-> w.content, sig |-> w.sig]

\* Vec::get with a zero-based index
get(t, i) == IF i < Len(t) THEN Some(t[i + 1]) ELSE None

Returned(v) == [panicked |-> FALSE, v |-> v]
Panicked == [panicked |-> TRUE, v |-> <<>>]

\* the loop of get_event_tags and get_pubkey_tags; unwrap of None panics
RECURSIVE CollectTags(_, _, _)
CollectTags(tags, name, acc) ==
    IF tags = <<>> THEN Returned(acc)
    ELSE LET t == Head(tags)
         IN  IF Len(t) >= 2
             THEN IF get(t, 0) = None THEN Panicked
                  ELSE IF unwrap(get(t, 0)) = name
                  THEN IF get(t, 1) = None THEN Panicked
                       ELSE CollectTags(Tail(tags), name,
                                        Append(acc, unwrap(get(t, 1))))
                  ELSE CollectTags(Tail(tags), name, acc)
             ELSE CollectTags(Tail(tags), name, acc)

\* the loop with t.len() >= 1 for its length test
RECURSIVE CollectTagsLen1(_, _, _)
CollectTagsLen1(tags, name, acc) ==
    IF tags = <<>> THEN Returned(acc)
    ELSE LET t == Head(tags)
         IN  IF Len(t) >= 1 /\ unwrap(get(t, 0)) = name
             THEN IF get(t, 1) = None THEN Panicked
                  ELSE CollectTagsLen1(Tail(tags), name,
                                       Append(acc, unwrap(get(t, 1))))
             ELSE CollectTagsLen1(Tail(tags), name, acc)

get_event_tags_len1(self) == CollectTagsLen1(self.tags, <<"e">>, <<>>)

get_event_tags(self) == CollectTags(self.tags, <<"e">>, <<>>)

get_pubkey_tags(self) == CollectTags(self.tags, <<"p">>, <<>>)

contains(list, x) == \E i \in 1 .. Len(list) : list[i] = x

event_tag_match(self, eventid) ==
    LET r == get_event_tags(self)
    IN  IF r.panicked THEN Panicked ELSE Returned(contains(r.v, eventid))

pubkey_tag_match(self, pubkey) ==
    LET r == get_pubkey_tags(self)
    IN  IF r.panicked THEN Panicked ELSE Returned(contains(r.v, pubkey))

----------------------------------------------------------------------------
(* Messages a peer can send *)

TagE(v) == <<<<"e">>, v>>
TagP(v) == <<<<"p">>, v>>

PubKeys == {KeyA, KeyB, KeyShort, KeyOffCurve}
Times == {0, 1, MaxU64}
Kinds == {0, 1}
\* no tag; an "e" tag with an empty reference; the one-element tag whose
\* string e","  reads like the second when its quotes are not escaped
TagLists == {<<>>, <<TagE(<<>>)>>, <<<<<<"e", "\"", ",", "\"">>>>>>}
Contents == {<<>>, <<"a">>}

Signables ==
    [pubkey : PubKeys, created_at : Times, kind : Kinds, tags : TagLists,
     content : Contents]

DigestOf(s) == Sha256(unwrap(to_canonical(s)))

\* what a sender can put in id and sig for the fields s
IdsFor(s) == {LowerHex(DigestOf(s)), UpperHex(DigestOf(s)), Text(<<"0">>)}
SigsFor(s) == {SigBy(k, DigestOf(s)) : k \in XOnlyKeys} \cup {SigForged, SigMalformed}

Events == UNION {{MkEvent(s, id, sig) : id \in IdsFor(s), sig \in SigsFor(s)} : s \in Signables}

Cmds == {"EVENT", "NOTICE"}

Allowances == {None, Some(0), Some(1), Some(MaxU64)}
ClockReadings == {-1, 1, MaxU64}

\* copies of e with the same id and sig and other signable fields
Tampered(e) ==
    {MkEvent(s, e.id, e.sig) : s \in Signables \ {Signable(e)}}

----------------------------------------------------------------------------
(* The conversion of one message, and a tampered resend *)

EvIdle == wire = <<>> /\ event = NoEvent /\ canon = None /\ out = NoCall

Init ==
    /\ settings \in Allowances
    /\ overflow_checks \in BOOLEAN
    /\ readers = 0
    /\ ec \in [cmd : Cmds, event : Events]
    /\ res = Pending
    /\ accepted = None
    /\ EvIdle
    /\ thr = <<>>

Convert(readings) ==
    /\ res.state = "pending"
    /\ \E now \in readings :
           res' = From(ec, settings, now, overflow_checks)
    /\ UNCHANGED <<settings, overflow_checks, readers, ec, accepted, evVars, thr>>

Tamper ==
    /\ res.state = "done"
    /\ res.outcome = "Ok"
    /\ accepted = None
    /\ \E e2 \in Tampered(res.event) :
           ec' = [cmd |-> "EVENT", event |-> e2]
    /\ accepted' = Some(res.event)
    /\ res' = Pending
    /\ UNCHANGED <<settings, overflow_checks, readers, evVars, thr>>

Next ==
    \/ Convert(ClockReadings)
    \/ Tamper

Spec == Init /\ [][Next]_vars

----------------------------------------------------------------------------
(* Decoded events and the methods called on them *)

\* tags per event, and strings per tag, of the generated tag lists
MaxTags == 2
MaxTagLen == 2

SeqsUpTo(S, n) == UNION {[1 .. k -> S] : k \in 0 .. n}

TagStrings == {<<"e">>, <<"p">>}
AllTags == SeqsUpTo(TagStrings, MaxTagLen)
AllTagLists == SeqsUpTo(AllTags, MaxTags)

WireEvent(id, pubkey, created_at, kind, tags, content, sig) ==
    [id |-> id, pubkey |-> pubkey, created_at |-> created_at, kind |-> kind,
     tags |-> tags, content |-> content, sig |-> sig]

\* every generated tag list, or null, in the event of tests::simple_event
WireTagged ==
    {WireEvent(Text(<<"0">>), KeyShort, 0, 0, t, <<>>, SigMalformed) :
        t \in {None} \cup {Some(l) : l \in AllTagLists}}

\* strings with characters JSON escapes, around a few tag lists
WireQuoted ==
    {WireEvent(id, pk, ca, 1, t, co, sig) :
        id \in {Text(<<"0">>), Text(<<"9">>)},
        pk \in {KeyA, <<"\"">>},
        ca \in {0, MaxU64},
        t \in {None, Some(<<>>), Some(<<TagE(<<>>)>>),
               Some(<<<<<<"e", "\"", ",", "\"">>>>>>)},
        co \in {<<>>, <<"a">>, <<"\"", ",", "\"">>, <<"\\">>, <<"\\", "\"">>},
        sig \in {SigMalformed, SigForged}}

Str012345 == <<"0", "1", "2", "3", "4", "5">>
StrThisIsATest ==
    <<"t", "h", "i", "s", " ", "i", "s", " ", "a", " ", "t", "e", "s", "t">>
StrWsExample ==
    <<"w", "s", ":", "/", "/", "e", "x", "a", "m", "p", "l", "e", ".", "c",
      "o", "m">>

\* the events of tests::event_canonical and tests::event_canonical_with_tags
TestEvent1 ==
    WireEvent(Text(<<"9", "9", "9">>), Str012345, 501234, 1, Some(<<>>),
              StrThisIsATest, SigMalformed)
TestEvent2 ==
    WireEvent(Text(<<"9", "9", "9">>), Str012345, 501234, 1,
              Some(<<<<<<"#", "e">>, <<"a", "o", "e", "u">>>>,
                     <<<<"#", "p">>, <<"a", "a", "a", "a">>, StrWsExample>>>>),
              StrThisIsATest, SigMalformed)

Expected1 ==
    <<"[", "0", ",", "\"", "0", "1", "2", "3", "4", "5", "\"", ",", "5",
      "0", "1", "2", "3", "4", ",", "1", ",", "[", "]", ",", "\"", "t",
      "h", "i", "s", " ", "i", "s", " ", "a", " ", "t", "e", "s", "t",
      "\"", "]">>

Expected2 ==
    <<"[", "0", ",", "\"", "0", "1", "2", "3", "4", "5", "\"", ",", "5",
      "0", "1", "2", "3", "4", ",", "1", ",", "[", "[", "\"", "#", "e",
      "\"", ",", "\"", "a", "o", "e", "u", "\"", "]", ",", "[", "\"", "#",
      "p", "\"", ",", "\"", "a", "a", "a", "a", "\"", ",", "\"", "w", "s",
      ":", "/", "/", "e", "x", "a", "m", "p", "l", "e", ".", "c", "o", "m",
      "\"", "]", "]", ",", "\"", "t", "h", "i", "s", " ", "i", "s", " ",
      "a", " ", "t", "e", "s", "t", "\"", "]">>

\* the event of tests::single_event_tag_match
TestEvent3 ==
    WireEvent(Text(<<"0">>), KeyShort, 0, 0,
              Some(<<TagE(<<"f", "o", "o">>)>>), <<>>, SigMalformed)

WireEvents ==
    WireTagged \cup WireQuoted \cup {TestEvent1, TestEvent2, TestEvent3}

Probes == {<<"e">>, <<"p">>, <<"f", "o", "o">>}

EventInit ==
    /\ wire \in WireEvents
    /\ event = NoEvent
    /\ canon = None
    /\ out = NoCall
    /\ settings = None /\ overflow_checks = FALSE /\ readers = 0
    /\ ec = <<>> /\ res = Pending /\ accepted = None
    /\ thr = <<>>

Decode ==
    /\ event = NoEvent
    /\ event' = Deserialize(wire)
    /\ UNCHANGED <<wire, canon, out, seqVars, thr>>

ToCanonical ==
    /\ event # NoEvent
    /\ out' = Call("to_canonical", <<>>,
                   [c |-> canonical_value(event), text |-> to_canonical(event)])
    /\ UNCHANGED <<wire, event, canon, seqVars, thr>>

\* the same signable fields arrive again, under any id and sig
Redeliver ==
    /\ out.op = "to_canonical"
    /\ canon = None
    /\ canon' = Some([event |-> event, text |-> out.val.text])
    /\ \E same \in BOOLEAN :
           wire' = IF same THEN wire
                   ELSE [wire EXCEPT !.id = Text(<<"7">>),
                                     !.sig = SigBy(KeyA, NoDigest)]
    /\ event' = NoEvent
    /\ out' = NoCall
    /\ UNCHANGED <<seqVars, thr>>

GetEventTags ==
    /\ event # NoEvent
    /\ out' = Call("get_event_tags", <<>>, get_event_tags(event))
    /\ UNCHANGED <<wire, event, canon, seqVars, thr>>

GetPubkeyTags ==
    /\ event # NoEvent
    /\ out' = Call("get_pubkey_tags", <<>>, get_pubkey_tags(event))
    /\ UNCHANGED <<wire, event, canon, seqVars, thr>>

EventTagMatch ==
    /\ event # NoEvent
    /\ \E x \in Probes :
           out' = Call("event_tag_match", x, event_tag_match(event, x))
    /\ UNCHANGED <<wire, event, canon, seqVars, thr>>

PubkeyTagMatch ==
    /\ event # NoEvent
    /\ \E x \in Probes :
           out' = Call("pubkey_tag_match", x, pubkey_tag_match(event, x))
    /\ UNCHANGED <<wire, event, canon, seqVars, thr>>

EventNext ==
    \/ Decode
    \/ ToCanonical
    \/ Redeliver
    \/ GetEventTags
    \/ GetPubkeyTags
    \/ EventTagMatch
    \/ PubkeyTagMatch

EventSpec == EventInit /\ [][EventNext]_vars

----------------------------------------------------------------------------
(* is_valid called concurrently on independent events *)

NumThreads == 2
Threads == 1 .. NumThreads

SignableA ==
    [pubkey |-> KeyA, created_at |-> 1, kind |-> 1, tags |-> <<>>,
     content |-> <<"a">>]
SignableLate == [SignableA EXCEPT !.created_at = MaxU64]

\* a valid event, a valid one far in the future, one whose id is not its
\* digest, and one whose sig does not parse
ConcEvents ==
    {MkEvent(SignableA, LowerHex(DigestOf(SignableA)),
             SigBy(KeyA, DigestOf(SignableA))),
     MkEvent(SignableLate, LowerHex(DigestOf(SignableLate)),
             SigBy(KeyA, DigestOf(SignableLate))),
     MkEvent(SignableA, Text(<<"0">>), SigBy(KeyA, DigestOf(SignableA))),
     MkEvent(SignableA, LowerHex(DigestOf(SignableA)), SigMalformed)}

ConcAllowances == {None, Some(1)}
ConcReadings == {0, MaxU64}

Local(pc, self, max_future_sec, now, v) ==
    [pc |-> pc, event |-> self, max_future_sec |-> max_future_sec,
     now |-> now, v |-> v]

\* every call validates a buffer shared with the first thread's call
SelfShared(t) == thr[1].event

\* &self: the event this call was made on
Self(t) == thr[t].event

\* RwLock::read: granted whatever the number of read guards held
CanRead(r) == r >= 0

ConcInit ==
    /\ settings \in ConcAllowances
    /\ overflow_checks \in BOOLEAN
    /\ readers = 0
    /\ thr \in [Threads -> {Local("start", e, None, None, NotRun) : e \in ConcEvents}]
    /\ ec = <<>> /\ res = Pending /\ accepted = None
    /\ EvIdle

\* lines 79-80: take a read guard and copy the setting
AcquireRead(t) ==
    /\ thr[t].pc = "start"
    /\ CanRead(readers)
    /\ readers' = readers + 1
    /\ thr' = [thr EXCEPT ![t].pc = "locked", ![t].max_future_sec = settings]
    /\ UNCHANGED <<settings, overflow_checks, ec, res, accepted, evVars>>

\* lines 81-92: read the clock when an allowance is set, and compare
CheckTimestamp(t) ==
    /\ thr[t].pc = "locked"
    /\ \E now \in ConcReadings :
          LET m == thr[t].max_future_sec
              clock == IF m = None THEN None ELSE Some(unix_time(now))
              ts == IF m = None THEN "pass"
                    ELSE TimestampCheck(Self(t).created_at, m, unwrap(clock),
                                        overflow_checks)
          IN  thr' = [thr EXCEPT
                  ![t].now = IF m = None THEN None ELSE Some(now),
                  ![t].pc = IF ts = "pass" THEN "checked" ELSE "returning",
                  ![t].v = IF ts = "panic"
                           THEN Verdict("panic", "timestamp", clock)
                           ELSE IF ts = "fail"
                           THEN Verdict("false", "timestamp", clock)
                           ELSE Verdict("none", "none", clock)]
    /\ UNCHANGED <<settings, overflow_checks, readers, ec, res, accepted, evVars>>

\* lines 98-117
Verify(t) ==
    /\ thr[t].pc = "checked"
    /\ thr' = [thr EXCEPT ![t].pc = "returning",
                          ![t].v = VerifyEvent(Self(t), thr[t].v.clock)]
    /\ UNCHANGED <<settings, overflow_checks, readers, ec, res, accepted, evVars>>

\* the read guard is dropped when is_valid returns or unwinds
DropGuard(t) ==
    /\ thr[t].pc = "returning"
    /\ readers' = readers - 1
    /\ thr' = [thr EXCEPT ![t].pc = "done"]
    /\ UNCHANGED <<settings, overflow_checks, ec, res, accepted, evVars>>

Step(t) ==
    \/ AcquireRead(t)
    \/ CheckTimestamp(t)
    \/ Verify(t)
    \/ DropGuard(t)

ConcNext == \E t \in Threads : Step(t)

ConcSpec == ConcInit /\ [][ConcNext]_vars

\* a thread that can take a step is scheduled
FairConcSpec == ConcSpec /\ WF_vars(ConcNext)

----------------------------------------------------------------------------
(* Claims on the conversion *)

Done == res.state = "done"
Ev == ec.event
IdMatches(e) == e.id = LowerHex(DigestOf(e))
Unparsable(e) ==
    SignatureFromStr(e.sig) = None \/ PublicKeyFromStr(e.pubkey) = None

\* C1: an EVENT whose timestamp passes the policy and whose id is the
\* computed digest, but whose sig or pubkey does not parse, ends the
\* conversion with EventInvalid and never with a panic.
C1_UnparsableIsInvalidEvent ==
    (Done /\ ec.cmd = "EVENT" /\ res.valid.at # "timestamp"
          /\ IdMatches(Ev) /\ Unparsable(Ev))
        => (res.outcome = "Err" /\ res.err = "EventInvalid")

\* C2: the conversion returns Ok only for an EVENT command whose created_at
\* is at most now + allowance (when an allowance is set), whose id is the
\* lowercase hex digest of its canonical form and whose sig verifies over
\* that digest under its pubkey; the event returned is the one decoded.
C2_OkOnlyIfAllStepsPass ==
    (Done /\ res.outcome = "Ok") =>
        /\ ec.cmd = "EVENT"
        /\ res.event = Ev
        /\ settings # None =>
               Ev.created_at <= unwrap(res.valid.clock) + unwrap(settings)
        /\ IdMatches(Ev)
        /\ ~Unparsable(Ev)
        /\ schnorrsig_verify(Ev.sig, DigestOf(Ev), Ev.pubkey)

C2_Witness ==
    Done /\ res.outcome = "Ok" /\ settings # None /\ Ev.tags # <<>>

\* C3: a command other than "EVENT" yields CommandUnknownError and is_valid
\* is not run (no settings read, no clock read, no parsing of sig or
\* pubkey), whatever the embedded event is.
C3_UnknownCommandSkipsValidation ==
    (Done /\ ec.cmd # "EVENT") =>
        /\ res.outcome = "Err"
        /\ res.err = "CommandUnknownError"
        /\ res.valid = NotRun

C3_Witness ==
    /\ Done /\ ec.cmd = "NOTICE" /\ res.err = "CommandUnknownError"
    /\ IdMatches(Ev) /\ Unparsable(Ev) /\ settings # None

\* C4: with an allowance A set and the clock at T, the timestamp check
\* fails exactly when created_at > T + A (the true sum); with no allowance
\* set it never fails.
C4_FutureTimestampPolicy ==
    (Done /\ ec.cmd = "EVENT") =>
        IF settings = None THEN res.valid.at # "timestamp"
        ELSE (res.valid.at = "timestamp" /\ res.valid.ret = "false")
                 <=> (Ev.created_at > unwrap(res.valid.clock) + unwrap(settings))

\* C5: an event whose id is not the hex digest of its canonical form makes
\* is_valid return false, before the signature step, whatever its sig is.
C5_IdMismatchReturnsFalse ==
    (Done /\ ec.cmd = "EVENT" /\ ~IdMatches(Ev)) =>
        (res.valid.ret = "false" /\ res.valid.at \in {"timestamp", "id"})

\* C6: a copy of an accepted event that keeps its id and sig and differs in
\* a signable field is never accepted: its validation ends at the timestamp
\* check or at the comparison of id and digest, and never returns true.
C6_TamperedCopyRejected ==
    (Done /\ accepted # None) =>
        /\ Ev.id = unwrap(accepted).id
        /\ Ev.sig = unwrap(accepted).sig
        /\ Signable(Ev) # Signable(unwrap(accepted))
        /\ res.outcome # "Ok"
        /\ res.valid.ret # "true"
        /\ res.valid.at \in {"timestamp", "id"}

C6_Witness ==
    /\ Done /\ accepted # None
    /\ Ev.pubkey # unwrap(accepted).pubkey
    /\ Ev.pubkey \in XOnlyKeys
    /\ [Signable(Ev) EXCEPT !.pubkey = unwrap(accepted).pubkey]
           = Signable(unwrap(accepted))
    /\ res.err = "EventInvalid"

----------------------------------------------------------------------------
(* Claims on decoding, canonical form and tag queries *)

\* the number of top-level elements of the JSON array text s, -1 when s is
\* not a balanced array text.  A quote delimits a string unless an odd run
\* of backslashes precedes it; brackets and commas count outside strings.
TopLevelCount(s) ==
    LET n == Len(s)
        Run(i) == Cardinality({k \in 1 .. i - 1 :
                                  \A j \in i - k .. i - 1 : s[j] = "\\"})
        Quotes == {i \in 1 .. n : s[i] = "\"" /\ Run(i) % 2 = 0}
        Outside(i) == s[i] # "\"" /\ Cardinality({q \in Quotes : q < i}) % 2 = 0
        Opens == {i \in 1 .. n : s[i] = "[" /\ Outside(i)}
        Closes == {i \in 1 .. n : s[i] = "]" /\ Outside(i)}
        Depth(i) == Cardinality({j \in Opens : j <= i})
                        - Cardinality({j \in Closes : j <= i})
        Commas == {i \in 1 .. n : s[i] = "," /\ Outside(i) /\ Depth(i) = 1}
    IN  IF /\ n >= 2
           /\ Cardinality(Quotes) % 2 = 0
           /\ \A i \in 1 .. n - 1 : Depth(i) >= 1
           /\ Depth(n) = 0
        THEN Cardinality(Commas) + 1
        ELSE -1

SameShape(v, tags) ==
    /\ v.type = "Array"
    /\ Len(v.a) = Len(tags)
    /\ \A i \in 1 .. Len(tags) :
          /\ v.a[i].type = "Array"
          /\ Len(v.a[i].a) = Len(tags[i])
          /\ \A j \in 1 .. Len(tags[i]) : v.a[i].a[j] = String(tags[i][j])

\* C7: to_canonical serializes exactly six elements, in the order
\* [0, pubkey, created_at, kind, tags, content], the tags in the nested shape
\* and order they have in the event; the text is the one the source's tests
\* expect; and an event that arrives again with the same five fields gets
\* the same text, whatever its id and sig.
C7_CanonicalForm ==
    out.op = "to_canonical" =>
        LET vec == out.val.c
            json == out.val.text
        IN  /\ Len(vec) = 6
            /\ vec[1] = Number(0)
            /\ vec[2] = String(event.pubkey)
            /\ vec[3] = Number(event.created_at)
            /\ vec[4] = Number(event.kind)
            /\ SameShape(vec[5], event.tags)
            /\ vec[6] = String(event.content)
            /\ json # None
            /\ TopLevelCount(unwrap(json)) = 6
            /\ SubSeq(unwrap(json), 1, 3) = <<"[", "0", ",">>
            /\ event = Deserialize(TestEvent1) => unwrap(json) = Expected1
            /\ event = Deserialize(TestEvent2) => unwrap(json) = Expected2
            /\ canon # None =>
                  /\ Signable(unwrap(canon).event) = Signable(event)
                  /\ unwrap(canon).text = json

C7_Witness ==
    /\ out.op = "to_canonical"
    /\ canon # None
    /\ unwrap(canon).event.id # event.id
    /\ unwrap(canon).event.sig # event.sig
    /\ Len(event.tags) = 1
    /\ \E i \in 1 .. Len(event.content) : event.content[i] = "\""

\* the tags a query for name selects: at least two elements, the first name
Selected(tags, name) ==
    {i \in 1 .. Len(tags) : Len(tags[i]) >= 2 /\ tags[i][1] = name}

\* list holds the second element of each selected tag, in tag order
SecondsOf(list, tags, name) ==
    LET sel == Selected(tags, name)
    IN  /\ Len(list) = Cardinality(sel)
        /\ \A i \in sel :
              list[Cardinality({j \in sel : j <= i})] = tags[i][2]

Quoted(s) == <<"\"">> \o EscapeStr(s) \o <<"\"">>

\* C10: an event whose tags field is null decodes to an Event whose tags is
\* the empty sequence, and its canonical form has [] in the tags position.
C10_NullTagsDecodeEmpty ==
    (event # NoEvent /\ wire.tags = None) =>
        /\ event.tags = <<>>
        /\ out.op = "to_canonical" =>
              /\ out.val.c[5] = Array(<<>>)
              /\ out.val.text =
                    Some(<<"[", "0", ",">> \o Quoted(event.pubkey) \o <<",">>
                         \o itoa(event.created_at) \o <<",">>
                         \o itoa(event.kind) \o <<",", "[", "]", ",">>
                         \o Quoted(event.content) \o <<"]">>)

C10_Witness ==
    /\ event # NoEvent /\ wire.tags = None
    /\ out.op = "to_canonical"
    /\ event.content # <<>>

----------------------------------------------------------------------------
(* Claims on concurrent validation *)

\* what the call of thread t returns when it runs alone with the setting
\* and the clock reading it saw
Alone(t) ==
    is_valid(thr[t].event, thr[t].max_future_sec,
             IF thr[t].now = None THEN 0 ELSE unwrap(thr[t].now),
             overflow_checks)

AloneOutcome ==
    \A t \in Threads :
        /\ thr[t].pc \in {"returning", "done"} => thr[t].v = Alone(t)
        /\ thr[t].pc # "start" => thr[t].max_future_sec = settings

====
